---- MODULE Spec2Model ----
(***************************************************************************)
(* A model of the 2048 game core of src/a3.py: the class Model (board,     *)
(* score, undo budget, undo history) and the operations on it.             *)
(*                                                                         *)
(* Python lists are objects with identity: self._game and the snapshots    *)
(* kept in self._previous_state are references.  The model therefore keeps *)
(* a heap of board objects; `game` and the history entries hold object     *)
(* ids, and add_tile's cell assignment writes into the heap object.        *)
(*                                                                         *)
(* The class Game around the Model is modelled by its handlers: the key    *)
(* press, the new_tile callback of after(), the two buttons and the        *)
(* answers to a message box.                                               *)
(***************************************************************************)
EXTENDS Integers, Sequences, FiniteSets, TLC

\* ---------------------------------------------------------------- constants
\* a3_support (imported at src/a3.py:4) sets these; the values are the ones
\* the reference configuration of the specification names.
MAX_UNDOS == 3
NUM_ROWS == 4
NUM_COLS == 4

\* The tile has_won looks for (src/a3.py:194).
WIN_TILE == 2048

\* Python's None: an empty cell.
None == 0

\* ------------------------------------------------------------------- bounds
\* add_tile calls in one behaviour of Spec.
MaxSpawns == 2
\* effective attempt_move calls in one behaviour of Spec.
MaxMoves == 4
\* add_tile calls and effective moves in one behaviour of SpecBoards.
BoardSpawns == 1
BoardMoves == 1
\* effective moves in one behaviour of SpecRows.
RowMoves == 1
\* new_tile callbacks that run, effective key presses, and callbacks that
\* wait at one time, in one behaviour of SpecGame.
GameSpawns == 1
GameMoves == 1
MaxTimers == 1

\* The draws of generate_tile's random.choice: indices into the list of
\* empty cells (row-major).  The value of the tile is drawn freely.
SpawnPicks == {1}

\* The direction characters attempt_move knows and one it does not know.
Directions == {"w", "a", "s", "d"}
Keys == Directions \cup {"x"}

VARIABLES
    heap,            \* object id -> board (list of rows) of each live list
    game,            \* self._game: id of the current board object
    previous_state,  \* self._previous_state: sequence of <<board id, score>>
    score,           \* self._score
    undos,           \* self._undos
    op,              \* the operation that ran last
    arg,             \* its argument (the move character), "" when none
    ret,             \* its return value: "True", "False" or "None"
    spawns_left,     \* add_tile calls the bounds still allow
    moves_left,      \* effective moves the bounds still allow
    premove,         \* board and score before the last effective move
    trail,           \* the states an undo may go back to, newest last
    evicted,         \* history entries dropped to admit a newer one
    timers,          \* Game: the new_tile callbacks after() holds, oldest
                     \* first, each with what Model.attempt_move returned
                     \* to the key press that scheduled it
    dialogs,         \* Game: the message boxes that are open
    closed           \* Game: the window was destroyed

vars == <<heap, game, previous_state, score, undos, op, arg, ret,
          spawns_left, moves_left, premove, trail, evicted,
          timers, dialogs, closed>>

\* The state of the Game controller around the Model.
controller == <<timers, dialogs, closed>>

\* The controller at rest: no callback scheduled, no message box, a window.
Idle == timers = <<>> /\ dialogs = 0 /\ closed = FALSE

\* ------------------------------------------------------- a3_support helpers
\* The row with its tiles compacted toward index 0, padded with None.
stack_row(row) ==
    LET kept == SelectSeq(row, LAMBDA t : t # None)
    IN  kept \o [i \in 1..(Len(row) - Len(kept)) |-> None]

stack_left(tiles) == [i \in 1..Len(tiles) |-> stack_row(tiles[i])]

\* One left-to-right pass over a row from index j: an equal non-empty pair
\* becomes the doubled tile followed by None.
RECURSIVE combine_row(_, _)
combine_row(row, j) ==
    IF j >= Len(row) THEN [tiles |-> row, score |-> 0]
    ELSE IF row[j] # None /\ row[j] = row[j + 1]
         THEN LET rest == combine_row([row EXCEPT ![j] = 2 * row[j],
                                                  ![j + 1] = None], j + 1)
              IN  [tiles |-> rest.tiles, score |-> rest.score + 2 * row[j]]
         ELSE combine_row(row, j + 1)

RECURSIVE SumSeq(_)
SumSeq(s) == IF s = <<>> THEN 0 ELSE Head(s) + SumSeq(Tail(s))

combine_left(tiles) ==
    [tiles |-> [i \in 1..Len(tiles) |-> combine_row(tiles[i], 1).tiles],
     score |-> SumSeq([i \in 1..Len(tiles) |-> combine_row(tiles[i], 1).score])]

reverse(tiles) ==
    [i \in 1..Len(tiles) |->
        [j \in 1..Len(tiles[i]) |-> tiles[i][Len(tiles[i]) + 1 - j]]]

transpose(tiles) ==
    IF tiles = <<>> THEN <<>>
    ELSE [j \in 1..Len(tiles[1]) |-> [i \in 1..Len(tiles) |-> tiles[i][j]]]

\* empty_locations of generate_tile: the empty cells in row-major order.
EmptyLocations(tiles) ==
    LET cells == [k \in 1..(NUM_ROWS * NUM_COLS) |->
                     <<((k - 1) \div NUM_COLS) + 1, ((k - 1) % NUM_COLS) + 1>>]
    IN  SelectSeq(cells, LAMBDA p : tiles[p[1]][p[2]] = None)

\* --------------------------------------------------------------- the moves
\* Each move works on a state [game |-> board, score |-> n] and returns the
\* state it leaves; every one of them leaves a newly allocated board.
\* The merged tiles are not stacked again.
move_left_once(m) ==
    LET merged == combine_left(stack_left(m.game))
    IN  [game |-> merged.tiles, score |-> m.score + merged.score]

\* The score of the merges replaces the score.
move_left_unscored(m) ==
    LET merged == combine_left(stack_left(m.game))
    IN  [game |-> stack_left(merged.tiles), score |-> merged.score]

\* The tiles are merged where they lie, without being stacked first.
move_left_unstacked(m) ==
    LET merged == combine_left(m.game)
    IN  [game |-> stack_left(merged.tiles), score |-> m.score + merged.score]

move_left(m) ==
    LET stacked_left == stack_left(m.game)
        merged == combine_left(stacked_left)
    IN  [game |-> stack_left(merged.tiles), score |-> m.score + merged.score]

move_right(m) ==
    LET r == move_left([game |-> reverse(m.game), score |-> m.score])
    IN  [game |-> reverse(r.game), score |-> r.score]

move_up(m) ==
    LET r == move_left([game |-> transpose(m.game), score |-> m.score])
    IN  [game |-> transpose(r.game), score |-> r.score]

\* The transposed board is moved left, not right.
move_down_unreversed(m) ==
    LET r == move_left([game |-> transpose(m.game), score |-> m.score])
    IN  [game |-> transpose(r.game), score |-> r.score]

move_down(m) ==
    LET r == move_right([game |-> transpose(m.game), score |-> m.score])
    IN  [game |-> transpose(r.game), score |-> r.score]

\* A chain of tests that ends in an else: any other character moves down.
ApplyMoveElse(move, m) ==
    IF move = "a" THEN move_left(m)
    ELSE IF move = "d" THEN move_right(m)
    ELSE IF move = "w" THEN move_up(m)
    ELSE move_down(m)

\* The four independent tests of attempt_move, in their order.
ApplyMove(move, m) ==
    LET m1 == IF move = "a" THEN move_left(m) ELSE m
        m2 == IF move = "d" THEN move_right(m1) ELSE m1
        m3 == IF move = "w" THEN move_up(m2) ELSE m2
        m4 == IF move = "s" THEN move_down(m3) ELSE m3
    IN  m4

\* ------------------------------------------------------------------ objects
\* The ids a history holds.
HistoryIds(h) == {h[i][1] : i \in 1..Len(h)}

\* The references the model holds, oldest history entry first, self._game
\* last.
Refs(g, hist) == [i \in 1..(Len(hist) + 1) |->
                     IF i <= Len(hist) THEN hist[i][1] ELSE g]

\* Object identities cannot be observed by the program beyond "is the same
\* object": an id is renamed to the rank of its first reference in Refs.
Rank(refs, x) ==
    LET first == CHOOSE i \in 1..Len(refs) :
                     refs[i] = x /\ \A j \in 1..(i - 1) : refs[j] # x
    IN  Cardinality({refs[j] : j \in 1..first})

\* A new object gets an id no live object has.
Fresh(live) == Cardinality(live) + 1

\* The heap restricted to what self._game and the history still reference
\* (the rest is garbage), objects renamed by Rank.
Collect(h, g, hist) ==
    LET refs == Refs(g, hist)
        ids == {refs[i] : i \in 1..Len(refs)}
        orig(c) == CHOOSE x \in ids : Rank(refs, x) = c
    IN  [heap |-> [c \in 1..Cardinality(ids) |-> h[orig(c)]],
         game |-> Rank(refs, g),
         previous_state |-> [i \in 1..Len(hist) |->
                                <<Rank(refs, hist[i][1]), hist[i][2]>>]]

\* The board self._game refers to.
Board == heap[game]

\* The history by value: <<board, score>> per entry.
History ==
    [i \in 1..Len(previous_state) |->
        <<heap[previous_state[i][1]], previous_state[i][2]>>]

\* One row short of NUM_ROWS.
EmptyBoardShort ==
    [row \in 1..(NUM_ROWS - 1) |-> [column \in 1..NUM_COLS |-> None]]

EmptyBoard == [row \in 1..NUM_ROWS |-> [column \in 1..NUM_COLS |-> None]]

\* Model.new_game has run: the board is no longer the [] of __init__.
Started == Board # <<>>

\* No move to undo: the value of premove outside a round trip.
NoSnap == [board |-> <<>>, score |-> 0, undos |-> 0, added |-> FALSE,
           undone |-> FALSE]

\* ----------------------------------------------------------------- __init__
\* Lines 16-19.
Init ==
    /\ game = 1
    /\ heap = [i \in {1} |-> <<>>]
    /\ previous_state = <<>>
    /\ score = 0
    /\ undos = MAX_UNDOS
    /\ op = "init" /\ arg = "" /\ ret = "None"
    /\ spawns_left = MaxSpawns /\ moves_left = MaxMoves
    /\ premove = NoSnap
    /\ trail = <<>>
    /\ evicted = 0
    /\ Idle

\* ------------------------------------------------------ boards in mid-game
\* Rows of spawned tiles: full rows with and without equal neighbours and
\* rows with gaps.
PlainRows ==
    { <<2, 4, 2, 4>>, <<4, 2, 4, 2>>, <<2, 2, 4, 4>>, <<4, 4, 2, 2>>,
      <<2, 2, 2, 2>>, <<2, 2, 2, None>>, <<None, 2, None, 2>>,
      <<None, None, None, None>> }

\* Rows around the winning tile.
WinRows == { <<1024, 1024, 4, 2>>, <<2048, 4, 2, 4>>, <<4096, 2, 4, 2>> }

\* Boards of alternating plain rows, boards of equal columns, and boards
\* with a row around the winning tile, full and nearly empty.
InitBoards ==
    LET empty == <<None, None, None, None>>
    IN  {<<a, b, a, b>> : a \in PlainRows, b \in PlainRows}
        \cup {transpose(<<a, a, a, a>>) : a \in PlainRows}
        \cup {<<w, <<4, 2, 4, 2>>, <<2, 4, 2, 4>>, <<4, 2, 4, 2>>>> :
                 w \in WinRows}
        \cup {<<w, empty, empty, empty>> : w \in WinRows}

\* The score of a game that built each tile above 4 out of spawned 4s: a
\* merge into v adds v.
RECURSIVE TileScore(_)
TileScore(v) == IF v <= 4 THEN 0 ELSE v + 2 * TileScore(v \div 2)

BoardScore(tiles) ==
    SumSeq([k \in 1..(NUM_ROWS * NUM_COLS) |->
               TileScore(tiles[((k - 1) \div NUM_COLS) + 1]
                              [((k - 1) % NUM_COLS) + 1])])

\* A Model in mid-game: new_game, then add_tile and moves that left the
\* board b, with nothing recorded for undo.
InitBoard ==
    /\ game = 1
    /\ \E b \in InitBoards : heap = [i \in {1} |-> b]
    /\ previous_state = <<>>
    /\ score = BoardScore(heap[1])
    /\ undos = MAX_UNDOS
    /\ op = "init" /\ arg = "" /\ ret = "None"
    /\ spawns_left = BoardSpawns /\ moves_left = BoardMoves
    /\ premove = NoSnap
    /\ trail = <<>>
    /\ evicted = 0
    /\ Idle

\* The reference history: a LIFO of at most MAX_UNDOS <<board, score>>
\* values that drops its oldest entry to admit a new one.
Deque(values, v) ==
    Append(SubSeq(values, IF Len(values) < MAX_UNDOS THEN 1 ELSE 2,
                  Len(values)), v)

\* premove is pending from an effective move until an undo or a new game.
Pending(snap) == snap.board # <<>> /\ ~snap.undone

\* What an operation that is not part of the round trip leaves of premove.
Keep(snap) == IF Pending(snap) THEN snap ELSE NoSnap

\* The objects and references an operation leaves.
Store(collected) ==
    \E c \in {collected} :
        /\ heap' = c.heap
        /\ game' = c.game
        /\ previous_state' = c.previous_state

\* ----------------------------------------------------------------- new_game
\* Lines 28-31: score, undo budget and board are set; self._previous_state
\* is not assigned.
NewGame ==
    /\ LET n == Fresh(DOMAIN heap)
           h == [i \in DOMAIN heap \cup {n} |->
                    IF i = n THEN EmptyBoard ELSE heap[i]]
       IN  Store(Collect(h, n, previous_state))
    /\ score' = 0
    /\ undos' = MAX_UNDOS
    /\ op' = "new_game" /\ arg' = "" /\ ret' = "None"
    /\ premove' = NoSnap
    /\ UNCHANGED <<spawns_left, moves_left, trail, evicted>>
    /\ UNCHANGED controller

\* ----------------------------------------------------------------- add_tile
\* The test looks at the first row alone.
HasEmptyTilesFirstRow(tiles) ==
    \E j \in 1..Len(tiles[1]) : tiles[1][j] = None

\* [None for row in self._game if None in row] is non-empty.
HasEmptyTiles(tiles) ==
    \E i \in 1..Len(tiles) : \E j \in 1..Len(tiles[i]) : tiles[i][j] = None

\* generate_tile: a position among the empty cells and a tile of 2 or 4.
GenerateTile(tiles) ==
    LET empty_locations == EmptyLocations(tiles)
    IN  {<<empty_locations[k], v>> :
            k \in SpawnPicks \cap (1..Len(empty_locations)), v \in {2, 4}}

AddTile ==
    /\ Started
    /\ spawns_left > 0
    /\ IF HasEmptyTiles(Board)
       THEN \E new_tile \in GenerateTile(Board) :
               LET row == new_tile[1][1]
                   column == new_tile[1][2]
                   tile_number == new_tile[2]
               IN  heap' = [heap EXCEPT ![game][row][column] = tile_number]
       ELSE UNCHANGED heap
    /\ spawns_left' = spawns_left - 1
    /\ op' = "add_tile" /\ arg' = "" /\ ret' = "None"
    /\ premove' = IF Pending(premove) THEN [premove EXCEPT !.added = TRUE]
                  ELSE NoSnap
    /\ UNCHANGED <<game, previous_state, score, undos, moves_left, trail,
                   evicted>>
    /\ UNCHANGED controller

\* ------------------------------------------------------------- attempt_move
\* Lines 156-160: append, after dropping index 0 when the history is full.
PushState(hist, entry) ==
    IF Len(hist) # MAX_UNDOS THEN Append(hist, entry)
    ELSE Append(Tail(hist), entry)

\* A comparison of the objects, not of their cells: a move always leaves a
\* new list.
ChangedObject(before, after) == TRUE

\* Lines 155 and 163: previous_state != self._game, a comparison of values.
Changed(before, after) == before # after

AttemptMove(move) ==
    /\ Started
    /\ \E after \in {ApplyMove(move, [game |-> Board, score |-> score])} :
       LET prev_state == game
           prev_score == score
           \* a move assigns a new list to self._game; no move leaves it
           n == IF move \in Directions THEN Fresh(DOMAIN heap) ELSE game
           h == [i \in DOMAIN heap \cup {n} |->
                    IF i = n THEN after.game ELSE heap[i]]
       IN  \E changed \in {Changed(h[prev_state], h[n])} :
           LET hist == IF changed
                       THEN PushState(previous_state,
                                      <<prev_state, prev_score>>)
                       ELSE previous_state
           IN  /\ changed => moves_left > 0
               /\ Store(Collect(h, n, hist))
               /\ score' = after.score
               /\ ret' = IF changed THEN "True" ELSE "False"
               /\ moves_left' = IF changed THEN moves_left - 1
                                ELSE moves_left
               /\ premove' = IF changed
                             THEN [board |-> Board, score |-> score,
                                   undos |-> undos, added |-> FALSE,
                                   undone |-> FALSE]
                             ELSE Keep(premove)
               /\ trail' = IF changed
                           THEN Deque(trail, <<Board, score>>)
                           ELSE trail
               /\ evicted' = IF changed /\ Len(previous_state) = MAX_UNDOS
                             THEN evicted + 1 ELSE evicted
    /\ op' = "attempt_move" /\ arg' = move
    /\ UNCHANGED <<undos, spawns_left>>
    /\ UNCHANGED controller

\* ----------------------------------------------------------------- use_undo
\* The guard without its test of the budget.
CannotUndoHistoryOnly == Len(previous_state) = 0

\* The guard with the budget test off by one.
CannotUndoBelowZero == undos < 0 \/ Len(previous_state) = 0

\* Line 173: the guard of the early return.
CannotUndo == undos < 1 \/ Len(previous_state) = 0

\* The oldest entry is popped.
UndoIndexOldest(hist) == 1

\* Line 177: the index use_undo pops.
UndoIndex(hist) == Len(hist)

\* The entry's board is put back, the score is left as it is.
RestoredBoardOnly(entry) == [game |-> entry[1], score |-> score]

\* Line 181: the board and the score the popped entry gives back.
Restored(entry) == [game |-> entry[1], score |-> entry[2]]

\* The entry is read and left in the list.
RemoveAtKeep(s, k) == s

RemoveAt(s, k) == [i \in 1..(Len(s) - 1) |-> IF i < k THEN s[i] ELSE s[i + 1]]

UseUndo ==
    /\ Started
    /\ IF CannotUndo
       THEN /\ UNCHANGED <<heap, game, previous_state, score, undos, trail>>
            /\ premove' = Keep(premove)
       ELSE LET previous_game == UndoIndex(previous_state)
                entry == previous_state[previous_game]
                hist == RemoveAt(previous_state, previous_game)
            IN  /\ Store(Collect(heap, Restored(entry).game, hist))
                /\ score' = Restored(entry).score
                /\ undos' = undos - 1
                /\ trail' = SubSeq(trail, 1, Len(trail) - 1)
                /\ premove' = IF Pending(premove)
                              THEN [premove EXCEPT !.undone = TRUE]
                              ELSE NoSnap
    /\ op' = "use_undo" /\ arg' = "" /\ ret' = "None"
    /\ UNCHANGED <<spawns_left, moves_left, evicted>>
    /\ UNCHANGED controller

\* ------------------------------------------------------------------ has_won
\* Some row holds a tile of 2048 or more.
WinTilesAtLeast(tiles) ==
    \E i \in 1..Len(tiles) : \E j \in 1..Len(tiles[i]) : tiles[i][j] >= WIN_TILE

\* Line 194: some row holds the tile 2048.
WinTiles(tiles) ==
    \E i \in 1..Len(tiles) : \E j \in 1..Len(tiles[i]) : tiles[i][j] = WIN_TILE

HasWon ==
    /\ Started
    /\ ret' = IF WinTiles(Board) THEN "True" ELSE "False"
    /\ op' = "has_won" /\ arg' = ""
    /\ premove' = Keep(premove)
    /\ UNCHANGED <<heap, game, previous_state, score, undos, spawns_left,
                   moves_left, trail, evicted>>
    /\ UNCHANGED controller

\* ----------------------------------------------------------------- has_lost
\* The board is put back, the score of the trial moves is kept.
RevertBoardOnly(prev_state, prev_score, after) ==
    [game |-> prev_state, score |-> after.score]

\* Lines 233-234: the state has_lost puts back after trial moves that
\* changed the board.
Revert(prev_state, prev_score, after) ==
    [game |-> prev_state, score |-> prev_score]

\* The horizontal moves alone.
TrialMovesHorizontal(m) == move_right(move_left(m))

\* Lines 221-224: the four moves, one after the other.
TrialMoves(m) == move_down(move_up(move_right(move_left(m))))

HasLost ==
    /\ Started
    /\ LET prev_state == game
           prev_score == score
       IN  IF ~HasEmptyTiles(Board)
           THEN \E after \in {TrialMoves([game |-> Board, score |-> score])} :
                LET n == Fresh(DOMAIN heap)
                    h == [i \in DOMAIN heap \cup {n} |->
                             IF i = n THEN after.game ELSE heap[i]]
                IN  IF h[n] = h[prev_state]
                    THEN /\ Store(Collect(h, n, previous_state))
                         /\ score' = after.score
                         /\ ret' = "True"
                    ELSE /\ Store(Collect(h, Revert(prev_state, prev_score,
                                                     after).game,
                                       previous_state))
                         /\ score' = Revert(prev_state, prev_score,
                                            after).score
                         /\ ret' = "False"
           ELSE /\ ret' = "False"
                /\ UNCHANGED <<heap, game, previous_state, score>>
    /\ op' = "has_lost" /\ arg' = ""
    /\ premove' = Keep(premove)
    /\ UNCHANGED <<undos, spawns_left, moves_left, trail, evicted>>
    /\ UNCHANGED controller

\* --------------------------------------------------------------------- next
Next ==
    \/ NewGame
    \/ AddTile
    \/ \E move \in Keys : AttemptMove(move)
    \/ UseUndo
    \/ HasWon
    \/ HasLost

Spec == Init /\ [][Next]_vars

SpecBoards == InitBoard /\ [][Next]_vars

\* ------------------------------------------------------ the moves on any row
\* Every row of four cells over None, 2, 4 and 8.
RowTiles == {None, 2, 4, 8}
AllRows == {<<a, b, c, d>> : a \in RowTiles, b \in RowTiles,
                             c \in RowTiles, d \in RowTiles}

\* Rows that go with them: one that merges twice, one that only slides, one
\* that stays.
SideRows == { <<2, 2, 4, 4>>, <<None, 4, None, 2>>, <<2, 4, 8, 2>> }

\* Boards that hold any row as a row and as a column.
RowBoards ==
    {<<r, q, q, r>> : r \in AllRows, q \in SideRows}
    \cup {transpose(<<r, q, q, r>>) : r \in AllRows, q \in SideRows}

\* A Model after new_game and add_tile calls and moves that left a board of
\* RowBoards, with nothing recorded for undo.
InitRows ==
    /\ game = 1
    /\ \E b \in RowBoards : heap = [i \in {1} |-> b]
    /\ previous_state = <<>>
    /\ score = BoardScore(heap[1])
    /\ undos = MAX_UNDOS
    /\ op = "init" /\ arg = "" /\ ret = "None"
    /\ spawns_left = 0 /\ moves_left = RowMoves
    /\ premove = NoSnap
    /\ trail = <<>>
    /\ evicted = 0
    /\ Idle

NextRows == \E move \in Directions : AttemptMove(move)

SpecRows == InitRows /\ [][NextRows]_vars

\* ========================================================== class Game
\* The handlers of Game call several Model methods in a row; the methods
\* are written once more as functions of the Model's fields.
ModelState ==
    [heap |-> heap, game |-> game, previous_state |-> previous_state,
     score |-> score, undos |-> undos]

\* The heap with the object n holding tiles.
Put(h, n, tiles) ==
    [i \in DOMAIN h \cup {n} |-> IF i = n THEN tiles ELSE h[i]]

\* The Model with the objects h, self._game = g and the history hist.
Collected(m, h, g, hist) ==
    LET c == Collect(h, g, hist)
    IN  [m EXCEPT !.heap = c.heap, !.game = c.game,
                  !.previous_state = c.previous_state]

\* Model.new_game, lines 28-31.
new_game(m) ==
    LET n == Fresh(DOMAIN m.heap)
    IN  [Collected(m, Put(m.heap, n, EmptyBoard), n, m.previous_state)
            EXCEPT !.score = 0, !.undos = MAX_UNDOS]

\* Model.add_tile, lines 58-64: the Models it may leave.
add_tile(m) ==
    IF HasEmptyTiles(m.heap[m.game])
    THEN {[m EXCEPT !.heap[m.game][new_tile[1][1]][new_tile[1][2]] =
                        new_tile[2]] :
             new_tile \in GenerateTile(m.heap[m.game])}
    ELSE {m}

\* Model.attempt_move, lines 139-163: the Model it leaves and what it
\* returns.
attempt_move(m, move) ==
    LET after == ApplyMove(move, [game |-> m.heap[m.game], score |-> m.score])
        n == IF move \in Directions THEN Fresh(DOMAIN m.heap) ELSE m.game
        h == Put(m.heap, n, after.game)
        changed == Changed(h[m.game], h[n])
        hist == IF changed
                THEN PushState(m.previous_state, <<m.game, m.score>>)
                ELSE m.previous_state
    IN  [m |-> [Collected(m, h, n, hist) EXCEPT !.score = after.score],
         ret |-> changed]

\* Model.has_won, line 194.
has_won(m) == WinTiles(m.heap[m.game])

\* Model.has_lost, lines 212-237.
has_lost(m) ==
    IF ~HasEmptyTiles(m.heap[m.game])
    THEN LET after == TrialMoves([game |-> m.heap[m.game],
                                  score |-> m.score])
             n == Fresh(DOMAIN m.heap)
             h == Put(m.heap, n, after.game)
         IN  IF h[n] = h[m.game]
             THEN [m |-> [Collected(m, h, n, m.previous_state)
                             EXCEPT !.score = after.score],
                   ret |-> TRUE]
             ELSE [m |-> [Collected(m, h, Revert(m.game, m.score, after).game,
                                    m.previous_state)
                             EXCEPT !.score = Revert(m.game, m.score,
                                                     after).score],
                   ret |-> FALSE]
    ELSE [m |-> m, ret |-> FALSE]

\* The fields of the Model after a handler.
SetModel(m) ==
    /\ heap' = m.heap
    /\ game' = m.game
    /\ previous_state' = m.previous_state
    /\ score' = m.score
    /\ undos' = m.undos

\* Game.new_tile, lines 591-594: add_tile, then has_lost; the Models it may
\* leave, each with whether the loss message box opens.
new_tile(m) == {has_lost(m1) : m1 \in add_tile(m)}

\* Game.start_new_game, lines 609-612: new_game and two new_tile calls.  A
\* board with one or two tiles is not lost, so no message box opens here.
start_new_game(m) ==
    UNION {new_tile(first.m) : first \in new_tile(new_game(m))}

\* The characters of a key event: the four moves, another key, and the
\* empty string of a key without a character (Shift, an arrow).
KeyChars == Directions \cup {"x", ""}

\* The strings s with s in "wasd" by Python's substring test.
InWasd == {"", "w", "a", "s", "d", "wa", "as", "sd", "was", "asd", "wasd"}

\* Game.attempt_move, lines 570-581: the handler of a key press.  A message
\* box holds the keyboard, so no key reaches the window while one is open.
KeyPress(char) ==
    /\ ~closed /\ dialogs = 0
    /\ op' = "key" /\ arg' = char
    /\ IF char \notin InWasd
       THEN /\ ret' = "None"
            /\ UNCHANGED <<heap, game, previous_state, score, undos,
                           moves_left, timers, dialogs>>
       ELSE \E r \in {attempt_move(ModelState, char)} :
               /\ r.ret => moves_left > 0
               /\ moves_left' = IF r.ret THEN moves_left - 1 ELSE moves_left
               /\ SetModel(r.m)
               /\ ret' = IF r.ret THEN "True" ELSE "False"
               /\ IF has_won(r.m)
                  THEN dialogs' = dialogs + 1 /\ UNCHANGED timers
                  ELSE /\ Len(timers) < MaxTimers
                       /\ timers' = Append(timers, r.ret)
                       /\ UNCHANGED dialogs
    /\ UNCHANGED <<spawns_left, premove, trail, evicted, closed>>

\* Game.new_tile run by the timer of after(), lines 591-594.  Timers run
\* while a message box is open.
NewTileTimer ==
    /\ ~closed /\ timers # <<>> /\ spawns_left > 0
    /\ timers' = Tail(timers)
    /\ spawns_left' = spawns_left - 1
    /\ \E r \in new_tile(ModelState) :
          /\ SetModel(r.m)
          /\ dialogs' = IF r.ret THEN dialogs + 1 ELSE dialogs
          /\ ret' = IF r.ret THEN "True" ELSE "False"
    /\ op' = "new_tile" /\ arg' = ""
    /\ UNCHANGED <<moves_left, premove, trail, evicted, closed>>

\* Game.undo_previous_move, lines 601-602: the undo button.
UndoButton ==
    /\ ~closed /\ dialogs = 0
    /\ UseUndo

\* Game.start_new_game, lines 609-612: the new game button.
NewGameButton ==
    /\ ~closed /\ dialogs = 0
    /\ \E r \in start_new_game(ModelState) : SetModel(r.m)
    /\ op' = "start_new_game" /\ arg' = "" /\ ret' = "None"
    /\ UNCHANGED <<spawns_left, moves_left, premove, trail, evicted,
                   controller>>

\* Game.message_box, lines 556-558: the answer yes closes the box and
\* starts a new game.
DialogYes ==
    /\ ~closed /\ dialogs > 0
    /\ dialogs' = dialogs - 1
    /\ \E r \in start_new_game(ModelState) : SetModel(r.m)
    /\ op' = "message_box" /\ arg' = "yes" /\ ret' = "None"
    /\ UNCHANGED <<spawns_left, moves_left, premove, trail, evicted,
                   timers, closed>>

\* Game.message_box, lines 559-560: the answer no destroys the window, and
\* with it the callbacks that wait.
DialogNo ==
    /\ ~closed /\ dialogs > 0
    /\ closed' = TRUE
    /\ timers' = <<>>
    /\ dialogs' = 0
    /\ op' = "message_box" /\ arg' = "no" /\ ret' = "None"
    /\ UNCHANGED <<heap, game, previous_state, score, undos, spawns_left,
                   moves_left, premove, trail, evicted>>

\* Boards in mid-game: one move from the winning tile, with the winning
\* tile, and one tile from a lost game.
GameBoards ==
    LET empty == <<None, None, None, None>>
    IN  { <<<<1024, 1024, 4, 2>>, empty, empty, empty>>,
          <<<<2048, 4, 2, 4>>, empty, empty, empty>>,
          <<<<None, 4, 2, 4>>, <<4, 2, 4, 2>>, <<2, 4, 2, 4>>,
            <<4, 2, 4, 2>>>> }

\* Game.__init__, lines 496-525: a Model, then start_new_game; or a game
\* that went on to a board of GameBoards.
InitGame ==
    /\ \E m0 \in {[heap |-> [i \in {1} |-> <<>>], game |-> 1,
                    previous_state |-> <<>>, score |-> 0,
                    undos |-> MAX_UNDOS]} :
          \/ \E r \in start_new_game(m0) :
                /\ heap = r.m.heap /\ game = r.m.game
                /\ previous_state = r.m.previous_state
                /\ score = r.m.score /\ undos = r.m.undos
          \/ \E b \in GameBoards :
                /\ heap = [i \in {1} |-> b] /\ game = 1
                /\ previous_state = <<>>
                /\ score = BoardScore(b) /\ undos = MAX_UNDOS
    /\ op = "init" /\ arg = "" /\ ret = "None"
    /\ spawns_left = GameSpawns /\ moves_left = GameMoves
    /\ premove = NoSnap
    /\ trail = <<>>
    /\ evicted = 0
    /\ timers = <<>> /\ dialogs = 0 /\ closed = FALSE

NextGame ==
    \/ \E char \in KeyChars : KeyPress(char)
    \/ NewTileTimer
    \/ UndoButton
    \/ NewGameButton
    \/ DialogYes
    \/ DialogNo

SpecGame == InitGame /\ [][NextGame]_vars
\* ===================================================================== claims
\* Helpers of the claims.
Cells == (1..NUM_ROWS) \X (1..NUM_COLS)

\* The board has NUM_ROWS x NUM_COLS cells and none is empty.
Full(tiles) == \A p \in Cells : tiles[p[1]][p[2]] # None

\* Two equal tiles lie side by side in a row or in a column.
HasAdjacentPair(tiles) ==
    \E p \in Cells :
        /\ tiles[p[1]][p[2]] # None
        /\ \/ p[2] < NUM_COLS /\ tiles[p[1]][p[2]] = tiles[p[1]][p[2] + 1]
           \/ p[1] < NUM_ROWS /\ tiles[p[1]][p[2]] = tiles[p[1] + 1][p[2]]

\* The precondition of use_undo's silent return, as the claims state it.
NothingToUndo == undos = 0 \/ previous_state = <<>>

\* C1: after new_game the board is all-empty, the score is 0, the undo
\* budget is MAX_UNDOS and the undo history is empty, whatever came before.
C1_NewGameResetsAll ==
    op = "new_game" =>
        /\ Board = EmptyBoard
        /\ score = 0
        /\ undos = MAX_UNDOS
        /\ previous_state = <<>>

\* C2: for each of the four directions attempt_move returns true exactly
\* when the board after the call differs from the board before it, and it
\* pushes one entry, the pre-move board and score, exactly then.
C2_ChangedFlag ==
    [][(op' = "attempt_move" /\ arg' \in Directions) =>
          LET differs == \E p \in Cells :
                             Board'[p[1]][p[2]] # Board[p[1]][p[2]]
              entry == <<Board, score>>
          IN  /\ (ret' = "True") <=> differs
              /\ differs =>
                    \E k \in {0, 1} :
                        History' = Append(SubSeq(History, k + 1,
                                                 Len(History)), entry)
              /\ ~differs => History' = History]_vars

C2_Witness ==
    /\ op = "attempt_move" /\ arg \in Directions /\ ret = "True"
    /\ Len(previous_state) >= 2
    /\ History[Len(History)][1] # Board

\* C3: with a budget of at least one, an effective move followed by
\* use_undo gives back the board and the score from before the move, also
\* when add_tile ran in between, and takes exactly one from the budget.
C3_UndoRoundTrip ==
    premove.undone =>
        /\ Board = premove.board
        /\ score = premove.score
        /\ undos = premove.undos - 1

C3_Witness ==
    /\ op = "use_undo" /\ premove.undone /\ premove.added
    /\ Board = premove.board /\ score = premove.score
    /\ \E p \in Cells : premove.board[p[1]][p[2]] # None

\* C4: the history holds at most MAX_UNDOS entries; a push on a full history
\* drops the oldest entry and use_undo gives back and removes the newest,
\* so the history is always the reference LIFO of capacity MAX_UNDOS.
C4_HistoryBound ==
    /\ [](Len(previous_state) <= MAX_UNDOS /\ History = trail)
    /\ [][(op' = "use_undo" /\ ~NothingToUndo) =>
             /\ <<Board', score'>> = History[Len(History)]
             /\ History' = SubSeq(History, 1, Len(History) - 1)]_vars
    /\ [][(op' = "attempt_move" /\ ret' = "True"
                /\ Len(previous_state) = MAX_UNDOS) =>
             History' = Append(Tail(History), <<Board, score>>)]_vars

\* More than MAX_UNDOS effective moves, then MAX_UNDOS undos: nothing is
\* left to go back to.
C4_Witness ==
    /\ evicted > 0
    /\ op = "use_undo" /\ undos = 0 /\ previous_state = <<>>
    /\ moves_left = 0

\* C5: the undo budget stays within 0..MAX_UNDOS; a successful use_undo
\* takes exactly one from it, attempt_move, add_tile, has_won and has_lost
\* leave it alone, and only new_game raises it.
C5_UndoBudget ==
    /\ [](undos \in 0..MAX_UNDOS)
    /\ [][/\ (op' = "use_undo" /\ ~NothingToUndo) => undos' = undos - 1
          /\ op' \in {"attempt_move", "add_tile", "has_won", "has_lost"}
                => undos' = undos
          /\ undos' > undos => op' = "new_game"]_vars

C5_Witness ==
    /\ op = "new_game" /\ undos = MAX_UNDOS
    /\ previous_state # <<>> /\ moves_left <= MaxMoves - 2

\* C6: use_undo with a budget of zero or with an empty history changes
\* neither board, score, budget nor history, and returns normally.
C6_UndoNoOp ==
    [][(op' = "use_undo" /\ NothingToUndo) =>
          /\ Board' = Board
          /\ score' = score
          /\ undos' = undos
          /\ History' = History
          /\ ret' = "None"]_vars

C6_Witness ==
    /\ op = "use_undo" /\ undos = 0 /\ previous_state # <<>>
\* C7 as stated: has_won returns true exactly when some cell holds a value
\* of at least 2048.
C7_WonAtLeast ==
    op = "has_won" =>
        ((ret = "True") <=> \E p \in Cells : Board[p[1]][p[2]] >= 2048)

\* C7 as amended: has_won returns true exactly when some cell holds the
\* value 2048; a larger tile does not count.
C7_WonExactly ==
    op = "has_won" =>
        ((ret = "True") <=> \E p \in Cells : Board[p[1]][p[2]] = 2048)

C7_Witness ==
    /\ op = "has_won" /\ ret = "False"
    /\ \E p \in Cells : Board[p[1]][p[2]] > 2048

\* C8: has_lost returns true exactly when the board has no empty cell and
\* none of the four moves, each applied to the current board, changes it;
\* on a full board that is exactly when no two equal tiles are adjacent.
C8_LostIff ==
    [][op' = "has_lost" =>
          LET stuck == \A d \in Directions :
                           ApplyMove(d, [game |-> Board,
                                         score |-> score]).game = Board
          IN  /\ (ret' = "True") <=> (Full(Board) /\ stuck)
              /\ Full(Board) =>
                    ((ret' = "True") <=> ~HasAdjacentPair(Board))]_vars

C8_Witness ==
    /\ op = "has_lost" /\ ret = "True"
    /\ Full(Board) /\ ~HasAdjacentPair(Board)

\* C9: has_lost leaves board, score, history and budget as they were,
\* whether it returns true or false.
C9_LostNoEffect ==
    [][op' = "has_lost" =>
          /\ Board' = Board
          /\ score' = score
          /\ History' = History
          /\ undos' = undos]_vars

\* The trial moves merged tiles of a full board and were taken back, with a
\* snapshot in the history.
C9_Witness ==
    /\ op = "has_lost" /\ ret = "False"
    /\ Full(Board) /\ previous_state # <<>>

\* C10 as stated: attempt_move with a direction outside the four signals an
\* invalid argument.
C10_RejectsUnknown ==
    (op = "attempt_move" /\ arg \notin Directions) => ret = "InvalidArgument"

\* C10 as amended: attempt_move with a direction outside the four returns
\* false like an ineffective move and changes nothing.
C10_UnknownIsNoOp ==
    [][(op' = "attempt_move" /\ arg' \notin Directions) =>
          /\ ret' = "False"
          /\ Board' = Board
          /\ score' = score
          /\ History' = History
          /\ undos' = undos]_vars

C10_Witness ==
    /\ op = "attempt_move" /\ arg \notin Directions /\ ret = "False"
    /\ previous_state # <<>>
    /\ \E p \in Cells : Board[p[1]][p[2]] # None

\* C11: add_tile on a board with an empty cell turns exactly one empty cell
\* into 2 or 4 and leaves every other cell alone; on a full board it changes
\* no cell.  Score, undo budget and history stay as they were.
C11_AddTileFrame ==
    [][op' = "add_tile" =>
          /\ score' = score
          /\ undos' = undos
          /\ History' = History
          /\ IF \E p \in Cells : Board[p[1]][p[2]] = None
             THEN \E p \in Cells :
                      /\ Board[p[1]][p[2]] = None
                      /\ Board'[p[1]][p[2]] \in {2, 4}
                      /\ \A q \in Cells \ {p} :
                             Board'[q[1]][q[2]] = Board[q[1]][q[2]]
             ELSE Board' = Board]_vars

\* A tile was added to the board an effective move left, with the pre-move
\* board in the history.
C11_Witness ==
    /\ op = "add_tile" /\ premove.added /\ ~premove.undone
    /\ previous_state # <<>>
    /\ History[Len(History)][1] = premove.board

\* The Row Reducer of the specification, on the non-empty tiles of a row:
\* an equal pair at the front becomes one doubled tile and the scan goes on
\* behind the pair.
RECURSIVE MergePairs(_)
MergePairs(kept) ==
    IF Len(kept) < 2 THEN [tiles |-> kept, score |-> 0]
    ELSE IF kept[1] = kept[2]
         THEN LET rest == MergePairs(Tail(Tail(kept)))
              IN  [tiles |-> <<2 * kept[1]>> \o rest.tiles,
                   score |-> 2 * kept[1] + rest.score]
         ELSE LET rest == MergePairs(Tail(kept))
              IN  [tiles |-> <<kept[1]>> \o rest.tiles, score |-> rest.score]

RowReducer(row) ==
    LET merged == MergePairs(SelectSeq(row, LAMBDA t : t # None))
    IN  [tiles |-> merged.tiles
                     \o [i \in 1..(Len(row) - Len(merged.tiles)) |-> None],
         score |-> merged.score]

\* C12: the left move turns every row into what the Row Reducer makes of it
\* (tiles compacted toward index 0 in order, equal neighbours merged once
\* from the left, padded to the row's length) and adds to the score the sum
\* of the doubled values over all rows.
C12_LeftIsRowReducer ==
    /\ RowReducer(<<2, 2, 2, 2>>) = [tiles |-> <<4, 4, None, None>>, score |-> 8]
    /\ RowReducer(<<2, 2, 2>>) = [tiles |-> <<4, 2, None>>, score |-> 4]
    /\ [][(op' = "attempt_move" /\ arg' = "a") =>
             /\ Board' = [i \in 1..NUM_ROWS |-> RowReducer(Board[i]).tiles]
             /\ score' = score + SumSeq([i \in 1..NUM_ROWS |->
                                            RowReducer(Board[i]).score])]_vars

\* The row 2,2,2,2 moved left: two merges, no cascade, 8 more in the score.
C12_Witness ==
    /\ op = "attempt_move" /\ arg = "a" /\ ret = "True"
    /\ premove.board[1] = <<2, 2, 2, 2>>
    /\ Board[1] = <<4, 4, None, None>>
    /\ score = premove.score + 16

\* A column of a board, top to bottom, and a row or column read backwards.
Column(tiles, j) == [i \in 1..Len(tiles) |-> tiles[i][j]]
Backwards(row) == [k \in 1..Len(row) |-> row[Len(row) + 1 - k]]

\* C13: a right move reduces every row read from its right end, an up move
\* every column read from the top, a down move every column read from the
\* bottom, so tiles compact toward the edge the direction names and merge
\* from that edge; the board keeps NUM_ROWS rows of NUM_COLS cells.
C13_DirectionsAreImages ==
    [][op' = "attempt_move" =>
          /\ Len(Board') = NUM_ROWS
          /\ \A i \in 1..NUM_ROWS : Len(Board'[i]) = NUM_COLS
          /\ arg' = "d" =>
                \A i \in 1..NUM_ROWS :
                    Backwards(Board'[i]) = RowReducer(Backwards(Board[i])).tiles
          /\ arg' = "w" =>
                \A j \in 1..NUM_COLS :
                    Column(Board', j) = RowReducer(Column(Board, j)).tiles
          /\ arg' = "s" =>
                \A j \in 1..NUM_COLS :
                    Backwards(Column(Board', j)) =
                        RowReducer(Backwards(Column(Board, j))).tiles]_vars

\* A column 2,2,2 moved down: 2 above 4 at the bottom.
C13_Witness ==
    /\ op = "attempt_move" /\ arg = "s" /\ ret = "True"
    /\ Column(premove.board, 1) = <<2, 2, 2, None>>
    /\ Column(Board, 1) = <<None, None, 2, 4>>

\* C14: the score is never negative; attempt_move, add_tile, has_won and
\* has_lost never lower it; it goes down only by use_undo, to the score of
\* the entry popped, or by new_game, to 0.
C14_ScoreMonotone ==
    /\ [](score >= 0)
    /\ [][/\ op' \in {"attempt_move", "add_tile", "has_won", "has_lost"}
                => score' >= score
          /\ score' < score =>
                \/ op' = "new_game" /\ score' = 0
                \/ /\ op' = "use_undo" /\ ~NothingToUndo
                   /\ score' = History[Len(History)][2]]_vars

\* has_lost on a full board with a positive score and equal neighbours: the
\* trial moves merged tiles and the score is the one from before.
C14_Witness ==
    /\ op = "has_lost" /\ ret = "False"
    /\ Full(Board) /\ HasAdjacentPair(Board) /\ score > 0

\* C15: once new_game has run, the board always has NUM_ROWS rows of
\* NUM_COLS cells and every cell is empty or a power of two from 2 up.
C15_BoardWellFormed ==
    Started =>
        /\ Len(Board) = NUM_ROWS
        /\ \A i \in 1..Len(Board) :
               /\ Len(Board[i]) = NUM_COLS
               /\ \A j \in 1..Len(Board[i]) :
                      \/ Board[i][j] = None
                      \/ \E k \in 1..16 : Board[i][j] = 2 ^ k

\* A board with the merged tile 8, put back by use_undo.
C15_Witness ==
    /\ op = "use_undo" /\ premove.undone
    /\ \E p \in Cells : Board[p[1]][p[2]] = 8
    /\ \E i \in 1..Len(History) :
           \E p \in Cells : History[i][1][p[1]][p[2]] = 4

\* C16: an attempt_move in a direction that moves no tile of the board
\* reports False and leaves board, score, undo budget and history as they
\* were.
C16_IneffectiveMoveFrame ==
    [][(/\ op' = "attempt_move" /\ arg' \in Directions
        /\ ApplyMove(arg', [game |-> Board, score |-> score]).game = Board) =>
          /\ ret' = "False"
          /\ Board' = Board
          /\ score' = score
          /\ undos' = undos
          /\ History' = History]_vars

\* A move that moved nothing, after an effective move that merged tiles.
C16_Witness ==
    /\ op = "attempt_move" /\ arg \in Directions /\ ret = "False"
    /\ previous_state # <<>> /\ score > History[Len(History)][2]

\* The lines of a board a move reduces, each read from the edge the move
\* goes to.
Lines(tiles, move) ==
    IF move = "a" THEN tiles
    ELSE IF move = "d" THEN [i \in 1..NUM_ROWS |-> Backwards(tiles[i])]
    ELSE IF move = "w" THEN [j \in 1..NUM_COLS |-> Column(tiles, j)]
    ELSE [j \in 1..NUM_COLS |-> Backwards(Column(tiles, j))]

\* The merges of the Row Reducer on the non-empty tiles of a line.
RECURSIVE PairCount(_)
PairCount(kept) ==
    IF Len(kept) < 2 THEN 0
    ELSE IF kept[1] = kept[2] THEN 1 + PairCount(Tail(Tail(kept)))
    ELSE PairCount(Tail(kept))

\* The sum of the tiles of a board and the number of its non-empty cells.
TileSum(tiles) == SumSeq([i \in 1..NUM_ROWS |-> SumSeq(tiles[i])])
TileCount(tiles) == Cardinality({p \in Cells : tiles[p[1]][p[2]] # None})

\* C17: a move in one of the four directions keeps the sum of the tiles,
\* lowers the number of non-empty cells by exactly the number of merges,
\* and adds to the score the sum of the tiles the merges made.
C17_MoveConserves ==
    [][(op' = "attempt_move" /\ arg' \in Directions) =>
          LET lines == Lines(Board, arg')
              merges == SumSeq([k \in 1..Len(lines) |->
                           PairCount(SelectSeq(lines[k],
                                               LAMBDA t : t # None))])
              made == SumSeq([k \in 1..Len(lines) |->
                         RowReducer(lines[k]).score])
          IN  /\ TileSum(Board') = TileSum(Board)
              /\ TileCount(Board') <= TileCount(Board)
              /\ TileCount(Board') = TileCount(Board) - merges
              /\ score' = score + made]_vars

\* An up move that merged four pairs or more.
C17_Witness ==
    /\ op = "attempt_move" /\ arg = "w" /\ ret = "True"
    /\ TileCount(Board) <= TileCount(premove.board) - 4
    /\ TileSum(Board) = TileSum(premove.board)
    /\ score > premove.score

\* C18: an entry of the history is never altered: a step leaves the history
\* as it is, takes its newest entry away, or appends the board and score
\* that were current, dropping at most the oldest; add_tile, has_won,
\* has_lost and new_game leave every entry as it is.
C18_SnapshotsFrozen ==
    [][/\ \/ History' = History
          \/ History # <<>>
               /\ History' = SubSeq(History, 1, Len(History) - 1)
          \/ \E k \in {0, 1} :
                History' = Append(SubSeq(History, k + 1, Len(History)),
                                  <<Board, score>>)
       /\ op' \in {"add_tile", "has_won", "has_lost", "new_game"}
             => History' = History]_vars

\* add_tile wrote into a board that use_undo put back, with older entries
\* still in the history.
C18_Witness ==
    /\ op = "add_tile" /\ undos < MAX_UNDOS
    /\ previous_state # <<>> /\ spawns_left = 0
    /\ History[Len(History)][1] # Board

\* C19: in the Game controller a tile is spawned after a key press only
\* when Model.attempt_move reported to that key press that the board
\* changed; a w, a, s or d press that leaves the board as it is spawns none.
C19_SpawnOnlyAfterChange ==
    [][(op' = "new_tile" /\ TileCount(Board') > TileCount(Board)) =>
          Head(timers) = TRUE]_vars

\* C20: a key event whose character is none of w, a, s, d, the empty
\* character included, changes neither board, score nor history and
\* schedules no tile spawn.
C20_OtherKeysIgnored ==
    [][(op' = "key" /\ arg' \notin Directions) =>
          /\ Board' = Board
          /\ score' = score
          /\ History' = History
          /\ timers' = timers]_vars

\* C21: a new_tile callback that was scheduled before start_new_game ran
\* does not land on the new game's board, which holds exactly two tiles,
\* score 0 and a full undo budget once the callbacks have fired; nor does
\* a callback land on a board that an undo pressed during the delay put
\* back.
C21_NoStaleSpawn ==
    /\ [][(op = "start_new_game" /\ op' = "new_tile") =>
             /\ Board' = Board
             /\ timers' = <<>> =>
                   /\ TileCount(Board') = 2
                   /\ score' = 0
                   /\ undos' = MAX_UNDOS]_vars
    /\ [][(op = "use_undo" /\ undos < MAX_UNDOS /\ op' = "new_tile") =>
             Board' = Board]_vars
====
